---- MODULE Spec2Model ----
(***************************************************************************)
(* Model of the BRAS dashboard pipeline of src/app.py:                     *)
(*   load_bras_data, load_aaa_data, combine_data, the KPI extraction of    *)
(*   main and the series construction of create_combined_chart.            *)
(*                                                                         *)
(* Text cells are sequences of one-character strings, so that splitting,   *)
(* substring search, comma removal and number/date parsing are computed.   *)
(* A DataFrame is a sequence of rows (records).                            *)
(***************************************************************************)
EXTENDS Integers, Sequences, FiniteSets, TLC

\* ------------------------------------------------------------------ bounds
MaxBrasRows == 2
MaxAaaRows == 2

\* ------------------------------------------------------------------ text
\* NaN of a numeric column (pandas float NaN); real values are >= 0.
NaN == -1
\* NaN of a text column (a missing string), distinct from every text.
NA == <<"NaN">>

Digits == <<"0", "1", "2", "3", "4", "5", "6", "7", "8", "9">>

IsDigit(c) == \E i \in 1..10 : Digits[i] = c

DigitVal(c) == (CHOOSE i \in 1..10 : Digits[i] = c) - 1

\* The characters of the model's texts, in ASCII order.
Alphabet ==
    <<" ", "(", ")", ",", "-", "/",
      "0", "1", "2", "3", "4", "5", "6", "7", "8", "9",
      "A", "B", "C", "D", "E", "F", "G", "H", "I", "J", "K", "L", "M",
      "N", "O", "P", "Q", "R", "S", "T", "U", "V", "W", "X", "Y", "Z", "_",
      "a", "b", "c", "d", "e", "f", "g", "h", "i", "j", "k", "l", "m",
      "n", "o", "p", "q", "r", "s", "t", "u", "v", "w", "x", "y", "z">>

Ord(c) == CHOOSE i \in 1..Len(Alphabet) : Alphabet[i] = c

\* s < t in Python's string order.
RECURSIVE StrLess(_, _)
StrLess(s, t) ==
    IF t = << >> THEN FALSE
    ELSE IF s = << >> THEN TRUE
    ELSE IF Head(s) = Head(t) THEN StrLess(Tail(s), Tail(t))
    ELSE Ord(Head(s)) < Ord(Head(t))

\* str.startswith
StartsWith(s, p) == Len(s) >= Len(p) /\ SubSeq(s, 1, Len(p)) = p

\* str.endswith
EndsWith(s, p) == Len(s) >= Len(p) /\ SubSeq(s, Len(s) - Len(p) + 1, Len(s)) = p

\* str.contains with a literal pattern
Contains(s, p) == \E i \in 1..(Len(s) - Len(p) + 1) : SubSeq(s, i, i + Len(p) - 1) = p

\* str.replace(old, new): every occurrence, left to right
RECURSIVE StrReplace(_, _, _)
StrReplace(s, old, new) ==
    IF Len(s) < Len(old) THEN s
    ELSE IF StartsWith(s, old)
         THEN new \o StrReplace(SubSeq(s, Len(old) + 1, Len(s)), old, new)
         ELSE <<Head(s)>> \o StrReplace(Tail(s), old, new)

\* str.split(sep).str[0]: the text before the first sep (all of it if none)
RECURSIVE FirstSegment(_, _)
FirstSegment(s, sep) ==
    IF s = << >> \/ Head(s) = sep THEN << >>
    ELSE <<Head(s)>> \o FirstSegment(Tail(s), sep)

\* The longest run of digits at the start of s.
RECURSIVE DigitRun(_)
DigitRun(s) ==
    IF s = << >> \/ ~IsDigit(Head(s)) THEN << >>
    ELSE <<Head(s)>> \o DigitRun(Tail(s))

BRAS == <<"B", "R", "A", "S">>

\* str.extract(r'(BRAS\d+)'): the leftmost match, NA when there is none
RECURSIVE ExtractBrasDevice(_)
ExtractBrasDevice(s) ==
    IF Len(s) < 5 THEN NA
    ELSE IF StartsWith(s, BRAS) /\ IsDigit(s[5])
         THEN BRAS \o DigitRun(SubSeq(s, 5, Len(s)))
         ELSE ExtractBrasDevice(Tail(s))

\* The value of a sequence of digits.
RECURSIVE DigitsValue(_)
DigitsValue(s) ==
    IF s = << >> THEN 0
    ELSE 10 * DigitsValue(SubSeq(s, 1, Len(s) - 1)) + DigitVal(s[Len(s)])

AllDigits(s) == s # << >> /\ \A i \in 1..Len(s) : IsDigit(s[i])

\* float(s) / Series.astype(float) / pd.to_numeric on the texts of the model:
\* an unsigned whole number; anything else raises ValueError (ok = FALSE).
ParseFloat(s) ==
    IF AllDigits(s) THEN [ok |-> TRUE, val |-> DigitsValue(s)]
    ELSE [ok |-> FALSE, val |-> NaN]

\* ------------------------------------------------------------------ dates
\* A date is [y, m, d]; times of day play no part in the pipeline.
MonthAbbr ==
    << <<"J", "a", "n">>, <<"F", "e", "b">>, <<"M", "a", "r">>, <<"A", "p", "r">>,
       <<"M", "a", "y">>, <<"J", "u", "n">>, <<"J", "u", "l">>, <<"A", "u", "g">>,
       <<"S", "e", "p">>, <<"O", "c", "t">>, <<"N", "o", "v">>, <<"D", "e", "c">> >>

IsLeap(y) == (y % 4 = 0 /\ y % 100 # 0) \/ y % 400 = 0

DaysInMonth(y, m) ==
    IF m = 2 THEN (IF IsLeap(y) THEN 29 ELSE 28)
    ELSE IF m \in {4, 6, 9, 11} THEN 30 ELSE 31

NoDate == [ok |-> FALSE, val |-> [y |-> 0, m |-> 0, d |-> 0]]

\* pd.to_datetime(text) on the texts of the model: an ISO "YYYY-MM-DD" date;
\* anything else raises.
ParseIsoDate(s) ==
    IF /\ Len(s) = 10
       /\ s[5] = "-" /\ s[8] = "-"
       /\ AllDigits(SubSeq(s, 1, 4)) /\ AllDigits(SubSeq(s, 6, 7)) /\ AllDigits(SubSeq(s, 9, 10))
    THEN LET y == DigitsValue(SubSeq(s, 1, 4))
             m == DigitsValue(SubSeq(s, 6, 7))
             d == DigitsValue(SubSeq(s, 9, 10))
         IN  IF m \in 1..12 /\ d >= 1 /\ d <= DaysInMonth(y, m)
             THEN [ok |-> TRUE, val |-> [y |-> y, m |-> m, d |-> d]]
             ELSE NoDate
    ELSE NoDate

\* datetime.strptime(text, '%b-%y'): month abbreviation, '-', two-digit year
\* (00..68 -> 20xx, 69..99 -> 19xx), first day of the month.
ParseMonYY(s) ==
    IF /\ Len(s) = 6
       /\ s[4] = "-"
       /\ AllDigits(SubSeq(s, 5, 6))
       /\ \E m \in 1..12 : MonthAbbr[m] = SubSeq(s, 1, 3)
    THEN LET m  == CHOOSE k \in 1..12 : MonthAbbr[k] = SubSeq(s, 1, 3)
             yy == DigitsValue(SubSeq(s, 5, 6))
         IN  [ok |-> TRUE,
              val |-> [y |-> (IF yy <= 68 THEN 2000 + yy ELSE 1900 + yy), m |-> m, d |-> 1]]
    ELSE NoDate

\* pd.to_datetime(n, unit='D', origin='1899-12-30'): the date n days after
\* 1899-12-30 (serial 25569 is 1970-01-01).
FromSerial(n) ==
    LET z    == (n - 25569) + 719468
        era  == z \div 146097
        doe  == z - era * 146097
        yoe  == (doe - doe \div 1460 + doe \div 36524 - doe \div 146096) \div 365
        doy  == doe - (365 * yoe + yoe \div 4 - yoe \div 100)
        mp   == (5 * doy + 2) \div 153
        d    == doy - (153 * mp + 2) \div 5 + 1
        m    == IF mp < 10 THEN mp + 3 ELSE mp - 9
        y    == yoe + era * 400 + (IF m <= 2 THEN 1 ELSE 0)
    IN  [y |-> y, m |-> m, d |-> d]

DateLess(a, b) ==
    \/ a.y < b.y
    \/ a.y = b.y /\ a.m < b.m
    \/ a.y = b.y /\ a.m = b.m /\ a.d < b.d

\* Series.dt.to_period('M') then .dt.to_timestamp(): the first of the month
ToMonthStart(date) == [y |-> date.y, m |-> date.m, d |-> 1]

\* Series.dt.strftime('%b %Y'), e.g. "Apr 2025"
MonthName(date) ==
    MonthAbbr[date.m] \o <<" ">> \o
    << Digits[((date.y \div 1000) % 10) + 1], Digits[((date.y \div 100) % 10) + 1],
       Digits[((date.y \div 10) % 10) + 1], Digits[(date.y % 10) + 1] >>

\* ------------------------------------------------------------------ frames
\* What a loader returns: a DataFrame (kind "frame", rows possibly empty) or
\* Python's None (kind "none"); error records a call of st.error.
Frame(rows) == [kind |-> "frame", rows |-> rows, error |-> FALSE]
ErrorFrame == [kind |-> "frame", rows |-> << >>, error |-> TRUE]
None == [kind |-> "none", rows |-> << >>, error |-> FALSE]
Unset == [kind |-> "unset", rows |-> << >>, error |-> FALSE]

SeqToSet(s) == {s[i] : i \in 1..Len(s)}

MonthLess(a, b) == DateLess(a.Month, b.Month)

\* Stable insertion of row r into rows sorted by Month.
RECURSIVE InsertByMonth(_, _)
InsertByMonth(r, rows) ==
    IF rows = << >> THEN <<r>>
    ELSE IF MonthLess(r, Head(rows)) THEN <<r>> \o rows
         ELSE <<Head(rows)>> \o InsertByMonth(r, Tail(rows))

\* DataFrame.sort_values('Month'): ascending; rows of the same Month keep
\* their order (numpy sorts short arrays by insertion).
RECURSIVE SortByMonth(_)
SortByMonth(rows) ==
    IF rows = << >> THEN << >>
    ELSE InsertByMonth(rows[Len(rows)], SortByMonth(SubSeq(rows, 1, Len(rows) - 1)))

SetMax(S) == CHOOSE x \in S : \A y \in S : y <= x

\* ------------------------------------------------------------------ BRAS loader
\* The columns load_bras_data reads from combined_bw_utilization.csv.
BrasColumns == {"NE Location", "MO Location", "MaxSendTrafficRate(Mbps)", "End Time"}

\* 100 Gbps in Mbps
Total_Capacity == 100000

\* df['Location']: first comma-separated segment + '_' + BRAS_Device; adding
\* a missing BRAS_Device gives a missing Location.
BrasLocation(ne) ==
    LET BRAS_Device == ExtractBrasDevice(ne)
    IN  IF BRAS_Device = NA THEN NA
        ELSE FirstSegment(ne, ",") \o <<"_">> \o BRAS_Device

\* df['MO Location'].str.contains('100GE', na=False)
Is100GE(r) == Contains(r.mo, <<"1", "0", "0", "G", "E">>)

\* .astype(str).str.replace(',', '').astype(float)
CleanRateKeepCommas(text) == ParseFloat(text)
CleanRate(text) == ParseFloat(StrReplace(text, <<",">>, << >>))

\* (MaxSendTrafficRate / Total_Capacity) * 100
UtilizationPct(rate, capacity) == (rate * 100) \div capacity

\* The aggregation 'max' of a group's MaxSendTrafficRate(Mbps), given in row order.
PeakLast(rates) == rates[Len(rates)]
PeakOfGroup(rates) == SetMax(SeqToSet(rates))

\* groupby sorts its groups by (Month, Location).
GroupLess(a, b) ==
    \/ DateLess(a.Month, b.Month)
    \/ a.Month = b.Month /\ StrLess(a.Location, b.Location)

RECURSIVE SortedGroups(_)
SortedGroups(S) ==
    IF S = {} THEN << >>
    ELSE LET k == CHOOSE x \in S : \A o \in S \ {x} : GroupLess(x, o)
         IN  <<k>> \o SortedGroups(S \ {k})

\* The rates of the rows of one group, in row order.
RECURSIVE RatesOf(_, _)
RatesOf(df, k) ==
    IF df = << >> THEN << >>
    ELSE (IF Head(df).Month = k.Month /\ Head(df).Location = k.Location
          THEN <<Head(df).rate>> ELSE << >>) \o RatesOf(Tail(df), k)

\* Lines 93-120: numeric rate, Month, groupby(['Month', 'Location']) (rows
\* with a missing Location belong to no group), max, utilization, month label.
MonthlyBras(df) ==
    LET typed == [i \in 1..Len(df) |->
                    [Month    |-> ToMonthStart(ParseIsoDate(df[i].endtime).val),
                     Location |-> BrasLocation(df[i].ne),
                     rate     |-> CleanRate(df[i].rate).val]]
        keys  == {[Month |-> typed[i].Month, Location |-> typed[i].Location] :
                     i \in {j \in 1..Len(df) : typed[j].Location # NA}}
        order == SortedGroups(keys)
    IN  [g \in 1..Len(order) |->
            LET peak == PeakOfGroup(RatesOf(typed, order[g]))
            IN  [Month              |-> order[g].Month,
                 Location           |-> order[g].Location,
                 MaxSendTrafficRate |-> peak,
                 Total_Capacity     |-> Total_Capacity,
                 Utilization_Pct    |-> UtilizationPct(peak, Total_Capacity),
                 Month_Name         |-> MonthName(order[g].Month)]]

\* load_bras_data on a source [exists, columns, rows]; a raised exception is
\* caught at line 124 and gives the empty frame with an error message; with
\* no 100GE row the function ends without a return statement.
load_bras_data(file) ==
    IF ~file.exists THEN ErrorFrame
    ELSE IF "NE Location" \notin file.columns THEN ErrorFrame
    ELSE IF "MO Location" \notin file.columns THEN ErrorFrame
    ELSE LET df == SelectSeq(file.rows, Is100GE)
         IN  IF df = << >> THEN None
             ELSE IF \/ "MaxSendTrafficRate(Mbps)" \notin file.columns
                     \/ \E i \in 1..Len(df) : ~CleanRate(df[i].rate).ok
                  THEN ErrorFrame
             ELSE IF \/ "End Time" \notin file.columns
                     \/ \E i \in 1..Len(df) : ~ParseIsoDate(df[i].endtime).ok
                  THEN ErrorFrame
             ELSE Frame(MonthlyBras(df))

\* ------------------------------------------------------------------ AAA loader
\* The columns load_aaa_data reads from Monthly AAA.xlsx.
AaaColumns == {"Month/Year", "AAA Location", "User Quantity"}

\* .astype(str).str.replace('Aprl', 'Apr')
FixMonthName(text) == StrReplace(text, <<"A", "p", "r", "l">>, <<"A", "p", "r">>)

\* parse_date on a text: serial day number, then '%b-%y', then pd.to_datetime;
\* ok = FALSE is the returned None.
parse_date(date_val) ==
    IF ParseFloat(date_val).ok THEN [ok |-> TRUE, val |-> FromSerial(ParseFloat(date_val).val)]
    ELSE IF ParseMonYY(date_val).ok THEN ParseMonYY(date_val)
    ELSE ParseIsoDate(date_val)

\* df['AAA Location'].str.split('_').str[0] + '_AAA'
AaaLocation(loc) == FirstSegment(loc, "_") \o <<"_", "A", "A", "A">>

\* pd.to_numeric(errors='coerce')
ToNumeric(text) == IF ParseFloat(text).ok THEN ParseFloat(text).val ELSE NaN

HasMonth(r) == r.parsed

\* load_aaa_data on a source [exists, columns, rows]. When no row has a
\* month, the Month column holds no datetimes and .dt raises (line 182).
load_aaa_data(file) ==
    IF ~file.exists THEN ErrorFrame
    ELSE IF AaaColumns \ file.columns # {} THEN ErrorFrame
    ELSE LET typed == [i \in 1..Len(file.rows) |->
                         LET m == parse_date(FixMonthName(file.rows[i].month))
                         IN  [parsed     |-> m.ok,
                              Month      |-> m.val,
                              Month_Name |-> IF m.ok THEN MonthName(m.val) ELSE NA,
                              Location   |-> AaaLocation(file.rows[i].loc),
                              AAA_Users  |-> ToNumeric(file.rows[i].users)]]
             kept  == SelectSeq(typed, HasMonth)
         IN  IF kept = << >> THEN ErrorFrame
             ELSE Frame(SortByMonth(
                    [i \in 1..Len(kept) |->
                        [Month      |-> kept[i].Month,
                         Month_Name |-> kept[i].Month_Name,
                         Location   |-> kept[i].Location,
                         AAA_Users  |-> kept[i].AAA_Users]]))

\* ------------------------------------------------------------------ reconciler
SameKey(l, r) ==
    l.Month = r.Month /\ l.Month_Name = r.Month_Name /\ l.Location = r.Location

\* Order of the join keys (Month, Month_Name, Location).
KeyLess(a, b) ==
    \/ DateLess(a.Month, b.Month)
    \/ a.Month = b.Month /\ StrLess(a.Month_Name, b.Month_Name)
    \/ a.Month = b.Month /\ a.Month_Name = b.Month_Name /\ StrLess(a.Location, b.Location)

RECURSIVE InsertByKey(_, _)
InsertByKey(r, rows) ==
    IF rows = << >> THEN <<r>>
    ELSE IF KeyLess(r, Head(rows)) THEN <<r>> \o rows
         ELSE <<Head(rows)>> \o InsertByKey(r, Tail(rows))

RECURSIVE SortByKey(_)
SortByKey(rows) ==
    IF rows = << >> THEN << >>
    ELSE InsertByKey(rows[Len(rows)], SortByKey(SubSeq(rows, 1, Len(rows) - 1)))

Joined(l, r) ==
    [Month |-> l.Month, Month_Name |-> l.Month_Name, Location |-> l.Location,
     MaxSendTrafficRate |-> l.MaxSendTrafficRate, Total_Capacity |-> l.Total_Capacity,
     Utilization_Pct |-> l.Utilization_Pct, AAA_Users |-> r.AAA_Users]

LeftOnly(l) ==
    [Month |-> l.Month, Month_Name |-> l.Month_Name, Location |-> l.Location,
     MaxSendTrafficRate |-> l.MaxSendTrafficRate, Total_Capacity |-> l.Total_Capacity,
     Utilization_Pct |-> l.Utilization_Pct, AAA_Users |-> NaN]

RightOnly(r) ==
    [Month |-> r.Month, Month_Name |-> r.Month_Name, Location |-> r.Location,
     MaxSendTrafficRate |-> NaN, Total_Capacity |-> NaN,
     Utilization_Pct |-> NaN, AAA_Users |-> r.AAA_Users]

\* The rows a left row gives: one per right row of its key.
RECURSIVE MatchesOf(_, _)
MatchesOf(l, right) ==
    IF right = << >> THEN << >>
    ELSE (IF SameKey(l, Head(right)) THEN <<Joined(l, Head(right))>> ELSE << >>)
         \o MatchesOf(l, Tail(right))

RECURSIVE LeftPart(_, _)
LeftPart(left, right) ==
    IF left = << >> THEN << >>
    ELSE (IF MatchesOf(Head(left), right) = << >> THEN <<LeftOnly(Head(left))>>
          ELSE MatchesOf(Head(left), right))
         \o LeftPart(Tail(left), right)

RECURSIVE RightPart(_, _)
RightPart(left, right) ==
    IF right = << >> THEN << >>
    ELSE (IF \E i \in 1..Len(left) : SameKey(left[i], Head(right)) THEN << >>
          ELSE <<RightOnly(Head(right))>>)
         \o RightPart(left, Tail(right))

\* pd.merge(bras_df, aaa_df, on=['Month', 'Month_Name', 'Location'], how='outer'):
\* the union of the keys, sorted by key.
MergeOuter(left, right) == SortByKey(LeftPart(left, right) \o RightPart(left, right))

\* Series.fillna(value)
FillNa(x, value) == IF x = NaN THEN value ELSE x

\* Lines 205-208
FillMissingButCapacity(rows) ==
    [i \in 1..Len(rows) |->
        [rows[i] EXCEPT !.MaxSendTrafficRate = FillNa(@, 0),
                        !.Utilization_Pct = FillNa(@, 0),
                        !.AAA_Users = FillNa(@, 0)]]
FillMissing(rows) ==
    [i \in 1..Len(rows) |->
        [rows[i] EXCEPT !.MaxSendTrafficRate = FillNa(@, 0),
                        !.Utilization_Pct = FillNa(@, 0),
                        !.AAA_Users = FillNa(@, 0),
                        !.Total_Capacity = FillNa(@, Total_Capacity)]]

\* combine_data; None has no attribute 'empty', which raises inside the try.
CombineLeftAlone(bras_df, aaa_df) ==
    IF bras_df.kind = "none" THEN ErrorFrame
    ELSE IF bras_df.rows = << >> THEN Frame(<< >>)
    ELSE Frame(SortByMonth(FillMissing(MergeOuter(bras_df.rows, aaa_df.rows))))
combine_data(bras_df, aaa_df) ==
    IF bras_df.kind = "none" THEN ErrorFrame
    ELSE IF bras_df.rows = << >> THEN Frame(<< >>)
    ELSE IF aaa_df.kind = "none" THEN ErrorFrame
    ELSE IF aaa_df.rows = << >> THEN Frame(<< >>)
    ELSE Frame(SortByMonth(FillMissing(MergeOuter(bras_df.rows, aaa_df.rows))))

\* ------------------------------------------------------------------ texts
\* The texts of the source cells, of the region codes and of the labels.
NE_Mandalay_BRAS01 == <<"M", "a", "n", "d", "a", "l", "a", "y", ",", " ", "B", "R", "A", "S", "0", "1">>
NE_MDY_BRAS01 == <<"M", "D", "Y", ",", " ", "B", "R", "A", "S", "0", "1">>
NE_MDY_BRAS02 == <<"M", "D", "Y", ",", " ", "B", "R", "A", "S", "0", "2">>
NE_NPT_BRAS02 == <<"N", "P", "T", ",", " ", "B", "R", "A", "S", "0", "2">>
NE_MDY_Core == <<"M", "D", "Y", ",", " ", "C", "o", "r", "e">>
MO_100GE == <<"1", "0", "0", "G", "E", "1", "/", "0", "/", "1">>
MO_GE == <<"G", "E", "0", "/", "0", "/", "1">>
Rate_45000 == <<"4", "5", ",", "0", "0", "0">>
Rate_30000 == <<"3", "0", "0", "0", "0">>
Rate_8000 == <<"8", ",", "0", "0", "0">>
Rate_90000 == <<"9", "0", ",", "0", "0", "0">>
Text_na == <<"n", "/", "a">>
End_Apr15 == <<"2", "0", "2", "5", "-", "0", "4", "-", "1", "5">>
End_Apr20 == <<"2", "0", "2", "5", "-", "0", "4", "-", "2", "0">>
End_May02 == <<"2", "0", "2", "5", "-", "0", "5", "-", "0", "2">>
Month_Apr25 == <<"A", "p", "r", "-", "2", "5">>
Month_Aprl25 == <<"A", "p", "r", "l", "-", "2", "5">>
Month_Iso_Apr15 == <<"2", "0", "2", "5", "-", "0", "4", "-", "1", "5">>
Month_Serial_May01 == <<"4", "5", "7", "7", "8">>
Month_soon == <<"s", "o", "o", "n">>
Loc_MDY_Region == <<"M", "D", "Y", "_", "R", "e", "g", "i", "o", "n">>
Loc_NPT_Region == <<"N", "P", "T", "_", "R", "e", "g", "i", "o", "n">>
Users_12000 == <<"1", "2", "0", "0", "0">>
Users_9000 == <<"9", "0", "0", "0">>
Users_7000 == <<"7", "0", "0", "0">>
MDY == <<"M", "D", "Y">>
NPT == <<"N", "P", "T">>
BRAS01 == <<"B", "R", "A", "S", "0", "1">>
BRAS02 == <<"B", "R", "A", "S", "0", "2">>
AAA == <<"A", "A", "A">>
Loc_Mandalay_BRAS01 == <<"M", "a", "n", "d", "a", "l", "a", "y", "_", "B", "R", "A", "S", "0", "1">>
Loc_MDY_BRAS01 == <<"M", "D", "Y", "_", "B", "R", "A", "S", "0", "1">>
Loc_MDY_BRAS02 == <<"M", "D", "Y", "_", "B", "R", "A", "S", "0", "2">>
Loc_MDY_AAA == <<"M", "D", "Y", "_", "A", "A", "A">>
Label_Utilization == <<" ", "U", "t", "i", "l", "i", "z", "a", "t", "i", "o", "n">>
Label_x10 == <<" ", "(", "×", "1", "0", ")">>
Name_Apr_2025 == <<"A", "p", "r", " ", "2", "0", "2", "5">>
Name_May_2025 == <<"M", "a", "y", " ", "2", "0", "2", "5">>

\* ------------------------------------------------------------------ KPIs and chart
\* The options of the region selectbox.
Regions == {MDY, NPT}

\* data[data['Location'].str.startswith(region)]
RegionData(rows, r) ==
    LET InRegion(row) == StartsWith(row.Location, r)
    IN  SelectSeq(rows, InRegion)

\* region_data[region_data['Location'] == location]
AtLocation(rows, location) ==
    LET Here(row) == row.Location = location
    IN  SelectSeq(rows, Here)

\* Series.idxmax(): the first row that attains the maximum
IdxMaxLast(values) ==
    CHOOSE i \in 1..Len(values) :
        /\ values[i] = SetMax(SeqToSet(values))
        /\ \A j \in (i + 1)..Len(values) : values[j] # values[i]
IdxMax(values) ==
    CHOOSE i \in 1..Len(values) :
        /\ values[i] = SetMax(SeqToSet(values))
        /\ \A j \in 1..(i - 1) : values[j] # values[i]

NoTile == [shown |-> FALSE, value |-> 0, month |-> NA]

\* Lines 338-347 and 350-359: peak rate in Gbps and the month of the peak row
PeakTile(sub) ==
    IF sub = << >> THEN NoTile
    ELSE LET rates == [i \in 1..Len(sub) |-> sub[i].MaxSendTrafficRate]
         IN  [shown |-> TRUE,
              value |-> SetMax(SeqToSet(rates)) \div 1000,
              month |-> sub[IdxMax(rates)].Month_Name]

\* Lines 362-371: peak user count and the month of the peak row
UsersTile(sub) ==
    IF sub = << >> THEN NoTile
    ELSE LET users == [i \in 1..Len(sub) |-> sub[i].AAA_Users]
         IN  [shown |-> TRUE,
              value |-> SetMax(SeqToSet(users)),
              month |-> sub[IdxMax(users)].Month_Name]

\* The three KPI tiles of main for the selected region.
Kpis(combined, r) ==
    LET region_data == RegionData(combined, r)
    IN  [BRAS01 |-> PeakTile(AtLocation(region_data, r \o <<"_">> \o BRAS01)),
         BRAS02 |-> PeakTile(AtLocation(region_data, r \o <<"_">> \o BRAS02)),
         AAA    |-> UsersTile(AtLocation(region_data, r \o <<"_">> \o AAA))]

\* 10 if (region == 'MDY' and device.endswith('BRAS02')) else 1
MultiplierAllBras02(r, device) == IF EndsWith(device, BRAS02) THEN 10 ELSE 1
Multiplier(r, device) == IF r = MDY /\ EndsWith(device, BRAS02) THEN 10 ELSE 1

\* f"{device} Utilization" + (" (x10)" if (region == 'MDY' and ...) else "")
SeriesLabel(r, device) ==
    device \o Label_Utilization \o
    (IF r = MDY /\ EndsWith(device, BRAS02) THEN Label_x10 ELSE << >>)

\* One utilization line of the chart, or no line when the device has no rows.
DeviceLine(region_data, r, device) ==
    LET device_data == SortByMonth(AtLocation(region_data, device))
    IN  IF device_data = << >> THEN << >>
        ELSE << [device |-> device,
                 label  |-> SeriesLabel(r, device),
                 x      |-> [i \in 1..Len(device_data) |-> device_data[i].Month_Name],
                 y      |-> [i \in 1..Len(device_data) |->
                                device_data[i].Utilization_Pct * Multiplier(r, device)]] >>

NoFigure == [warning |-> FALSE, lines |-> << >>, bars |-> << >>]

\* create_combined_chart: the warning for a region without rows, the lines of
\* the two BRAS devices and the bars of the AAA users.
create_combined_chart(data, r) ==
    LET region_data == RegionData(data, r)
        aaa_data    == SortByMonth(AtLocation(region_data, r \o <<"_">> \o AAA))
    IN  IF region_data = << >> THEN [warning |-> TRUE, lines |-> << >>, bars |-> << >>]
        ELSE [warning |-> FALSE,
              lines   |-> DeviceLine(region_data, r, r \o <<"_">> \o BRAS01)
                          \o DeviceLine(region_data, r, r \o <<"_">> \o BRAS02),
              bars    |-> [i \in 1..Len(aaa_data) |->
                              [x |-> aaa_data[i].Month_Name, height |-> aaa_data[i].AAA_Users]]]

\* ------------------------------------------------------------------ inputs
BrasReading(ne, mo, rate, endtime) == [ne |-> ne, mo |-> mo, rate |-> rate, endtime |-> endtime]

\* Rows of combined_bw_utilization.csv the model draws its files from.
BrasReadings ==
    { BrasReading(NE_Mandalay_BRAS01, MO_100GE, Rate_45000, End_Apr15),
      BrasReading(NE_MDY_BRAS01, MO_100GE, Rate_45000, End_Apr15),
      BrasReading(NE_MDY_BRAS01, MO_100GE, Rate_30000, End_Apr20),
      BrasReading(NE_MDY_BRAS01, MO_100GE, Rate_45000, End_May02),
      BrasReading(NE_MDY_BRAS02, MO_100GE, Rate_8000, End_Apr15),
      BrasReading(NE_NPT_BRAS02, MO_100GE, Rate_30000, End_May02),
      BrasReading(NE_MDY_BRAS01, MO_GE, Rate_90000, End_Apr15),
      BrasReading(NE_MDY_Core, MO_100GE, Rate_90000, End_Apr15),
      BrasReading(NE_MDY_Core, MO_100GE, Text_na, End_Apr15),
      BrasReading(NE_MDY_BRAS01, MO_100GE, Text_na, End_Apr15),
      BrasReading(NE_MDY_BRAS02, MO_100GE, Rate_30000, Text_na) }

AaaRow(month, loc, users) == [month |-> month, loc |-> loc, users |-> users]

\* Rows of Monthly AAA.xlsx the model draws its files from.
AaaRows ==
    { AaaRow(Month_Apr25, Loc_MDY_Region, Users_12000),
      AaaRow(Month_Aprl25, Loc_MDY_Region, Text_na),
      AaaRow(Month_Iso_Apr15, Loc_MDY_Region, Users_9000),
      AaaRow(Month_Serial_May01, Loc_MDY_Region, Users_12000),
      AaaRow(Month_soon, Loc_NPT_Region, Users_7000) }

SeqsUpTo(S, n) == UNION {[1..k -> S] : k \in 0..n}

Source(exists, columns, rows) == [exists |-> exists, columns |-> columns, rows |-> rows]

\* A source: no file at any candidate path; a file with all its columns and
\* up to the bound of rows; or a file that lacks one column, with no row or one.
BrasSources ==
    {Source(FALSE, {}, << >>)}
    \cup {Source(TRUE, BrasColumns, rows) : rows \in SeqsUpTo(BrasReadings, MaxBrasRows)}
    \cup {Source(TRUE, BrasColumns \ {c[1]}, c[2]) : c \in BrasColumns \X SeqsUpTo(BrasReadings, 1)}

AaaSources ==
    {Source(FALSE, {}, << >>)}
    \cup {Source(TRUE, AaaColumns, rows) : rows \in SeqsUpTo(AaaRows, MaxAaaRows)}
    \cup {Source(TRUE, AaaColumns \ {c[1]}, c[2]) : c \in AaaColumns \X SeqsUpTo(AaaRows, 1)}

\* ------------------------------------------------------------------ one render pass
VARIABLES
    bras_file,      \* the BRAS source as load_bras_data found it
    aaa_file,       \* the AAA source as load_aaa_data found it
    bras_df,        \* what load_bras_data returned
    aaa_df,         \* what load_aaa_data returned
    combined_df,    \* what combine_data returned
    region,         \* the region chosen in the sidebar
    kpis,           \* the KPI tiles shown
    fig,            \* the chart built by create_combined_chart
    message,        \* "none", "warning" (no data available) or "error" (Application error)
    pc              \* position in main

vars == <<bras_file, aaa_file, bras_df, aaa_df, combined_df, region, kpis, fig, message, pc>>

NoKpis == [BRAS01 |-> NoTile, BRAS02 |-> NoTile, AAA |-> NoTile]

NotRead == Source(FALSE, {}, << >>)

Init ==
    /\ bras_file = NotRead
    /\ aaa_file = NotRead
    /\ bras_df = Unset
    /\ aaa_df = Unset
    /\ combined_df = Unset
    /\ region = << >>
    /\ kpis = NoKpis
    /\ fig = NoFigure
    /\ message = "none"
    /\ pc = "start"

\* main, line 321: load_bras_data reads the source it finds
LoadBras ==
    /\ pc = "start"
    /\ \E file \in BrasSources :
          /\ bras_file' = file
          /\ bras_df' = load_bras_data(file)
    /\ pc' = "bras_loaded"
    /\ UNCHANGED <<aaa_file, aaa_df, combined_df, region, kpis, fig, message>>

\* main, line 322: load_aaa_data reads the source it finds
LoadAaa ==
    /\ pc = "bras_loaded"
    /\ \E file \in AaaSources :
          /\ aaa_file' = file
          /\ aaa_df' = load_aaa_data(file)
    /\ pc' = "aaa_loaded"
    /\ UNCHANGED <<bras_file, bras_df, combined_df, region, kpis, fig, message>>

\* main, line 323
Combine ==
    /\ pc = "aaa_loaded"
    /\ combined_df' = combine_data(bras_df, aaa_df)
    /\ pc' = "combined"
    /\ UNCHANGED <<bras_file, aaa_file, bras_df, aaa_df, region, kpis, fig, message>>

\* main, lines 325 and 418-419: nothing to show
NoData ==
    /\ pc = "combined"
    /\ combined_df.rows = << >>
    /\ message' = "warning"
    /\ pc' = "done"
    /\ UNCHANGED <<bras_file, aaa_file, bras_df, aaa_df, combined_df, region, kpis, fig>>

\* main, lines 325-371: the region is chosen and the KPI tiles are shown
ShowKpis ==
    /\ pc = "combined"
    /\ combined_df.rows # << >>
    /\ \E r \in Regions :
          /\ region' = r
          /\ kpis' = Kpis(combined_df.rows, r)
    /\ pc' = "kpis"
    /\ UNCHANGED <<bras_file, aaa_file, bras_df, aaa_df, combined_df, fig, message>>

\* main, lines 374-416: the chart (the tables and the footer add no state)
DrawChart ==
    /\ pc = "kpis"
    /\ fig' = create_combined_chart(combined_df.rows, region)
    /\ pc' = "done"
    /\ UNCHANGED <<bras_file, aaa_file, bras_df, aaa_df, combined_df, region, kpis, message>>

Next ==
    \/ LoadBras
    \/ LoadAaa
    \/ Combine
    \/ NoData
    \/ ShowKpis
    \/ DrawChart

Spec == Init /\ [][Next]_vars

\* ------------------------------------------------------------------ claims
AfterBras == pc # "start"
AfterAaa == pc \notin {"start", "bras_loaded"}
AfterCombine == pc \in {"combined", "kpis", "done"}

\* The calendar month of a date.
CalendarMonth(date) == [y |-> date.y, m |-> date.m]

SameMonthLocation(a, b) ==
    CalendarMonth(a.Month) = CalendarMonth(b.Month) /\ a.Location = b.Location

\* The rows of the Unified Record for the (calendar month, location) of row k.
UnifiedAt(k) ==
    {i \in 1..Len(combined_df.rows) : SameMonthLocation(combined_df.rows[i], k)}

\* C1: when both loaders return rows, the Unified Record has at most one row
\* per (calendar month, location), and every (month, location) of either
\* loader's output appears in it exactly once, also when the AAA source has
\* several rows for one location in one calendar month.
C1_OneRowPerMonthLocation ==
    (AfterCombine /\ bras_df.rows # << >> /\ aaa_df.rows # << >>) =>
        /\ \A i \in 1..Len(combined_df.rows) :
              Cardinality(UnifiedAt(combined_df.rows[i])) = 1
        /\ \A i \in 1..Len(bras_df.rows) : Cardinality(UnifiedAt(bras_df.rows[i])) = 1
        /\ \A i \in 1..Len(aaa_df.rows) : Cardinality(UnifiedAt(aaa_df.rows[i])) = 1

\* The end-to-end scenario: one BRAS reading and one AAA row.
EndToEndBras ==
    Source(TRUE, BrasColumns, <<BrasReading(NE_Mandalay_BRAS01, MO_100GE, Rate_45000, End_Apr15)>>)
EndToEndAaa ==
    Source(TRUE, AaaColumns, <<AaaRow(Month_Apr25, Loc_MDY_Region, Users_12000)>>)

April2025 == [y |-> 2025, m |-> 4, d |-> 1]

\* The two Unified rows of the scenario, the BRAS row under location key loc.
EndToEndRows(loc) ==
    { [Month |-> April2025, Month_Name |-> Name_Apr_2025, Location |-> loc,
       MaxSendTrafficRate |-> 45000, Total_Capacity |-> 100000,
       Utilization_Pct |-> 45, AAA_Users |-> 0],
      [Month |-> April2025, Month_Name |-> Name_Apr_2025, Location |-> Loc_MDY_AAA,
       MaxSendTrafficRate |-> 0, Total_Capacity |-> 100000,
       Utilization_Pct |-> 0, AAA_Users |-> 12000] }

EndToEndRun == AfterCombine /\ bras_file = EndToEndBras /\ aaa_file = EndToEndAaa

\* C2 as claimed: the scenario yields exactly two Unified rows of month
\* 2025-04-01, location keys MDY_BRAS01 (peak 45000, capacity 100000,
\* utilization 45, users 0) and MDY_AAA (users 12000, peak 0, utilization 0,
\* capacity 100000).
C2_EndToEndAsClaimed ==
    EndToEndRun =>
        /\ Len(combined_df.rows) = 2
        /\ SeqToSet(combined_df.rows) = EndToEndRows(Loc_MDY_BRAS01)

\* C2 amended: the same two rows, the BRAS row under the location key
\* Mandalay_BRAS01 (the first comma-separated segment of "Mandalay, BRAS01",
\* an underscore and the device tag).
C2_EndToEnd ==
    EndToEndRun =>
        /\ Len(combined_df.rows) = 2
        /\ SeqToSet(combined_df.rows) = EndToEndRows(Loc_Mandalay_BRAS01)

C2_Witness == EndToEndRun /\ combined_df.kind = "frame" /\ pc = "combined"

\* A BRAS reading that filters, parses and has a location key.
ValidReading(r) ==
    /\ Is100GE(r)
    /\ CleanRate(r.rate).ok
    /\ ParseIsoDate(r.endtime).ok
    /\ BrasLocation(r.ne) # NA

NotFound(file) == ~file.exists
ColumnAbsent(file, columns) == file.exists /\ file.columns # columns
NoParseableMonth(file) ==
    file.exists /\ \A i \in 1..Len(file.rows) :
                      ~parse_date(FixMonthName(file.rows[i].month)).ok

\* C4: when a loader yields an empty result (file not found, a mandatory
\* column absent, no AAA row with a parseable month), combine_data returns an
\* empty Unified Record even if the other source has rows, and the render
\* pass ends in the "no data available" warning with nothing else shown.
C4_BothRequired ==
    /\ (AfterBras /\ (NotFound(bras_file) \/ ColumnAbsent(bras_file, BrasColumns))) =>
          bras_df.rows = << >>
    /\ (AfterAaa /\ (\/ NotFound(aaa_file) \/ ColumnAbsent(aaa_file, AaaColumns)
                     \/ NoParseableMonth(aaa_file))) =>
          (aaa_df.kind = "frame" /\ aaa_df.rows = << >>)
    /\ (AfterCombine /\ (bras_df.rows = << >> \/ aaa_df.rows = << >>)) =>
          (combined_df.kind = "frame" /\ combined_df.rows = << >>)
    /\ (pc = "kpis" => (bras_df.rows # << >> /\ aaa_df.rows # << >>))
    /\ (pc = "done" /\ (bras_df.rows = << >> \/ aaa_df.rows = << >>)) =>
          (message = "warning" /\ kpis = NoKpis /\ fig = NoFigure)

C4_Witness ==
    /\ pc = "done" /\ message = "warning"
    /\ bras_df.rows # << >>
    /\ Len(aaa_file.rows) > 0 /\ NoParseableMonth(aaa_file)

\* The join key of row k exists in the rows of a loader's output.
KeyIn(k, rows) == \E i \in 1..Len(rows) : SameKey(rows[i], k)

\* How many rows of rows have the join key of k.
CountKey(k, rows) == Cardinality({i \in 1..Len(rows) : SameKey(rows[i], k)})

ReadingsOf(row) ==
    {i \in 1..Len(bras_file.rows) :
        /\ Is100GE(bras_file.rows[i])
        /\ BrasLocation(bras_file.rows[i].ne) = row.Location
        /\ ParseIsoDate(bras_file.rows[i].endtime).ok
        /\ ToMonthStart(ParseIsoDate(bras_file.rows[i].endtime).val) = row.Month}

\* The peak rate of a reading as a number: its digits, thousands separators
\* dropped.
RateValue(text) ==
    LET NotComma(c) == c # ","
    IN  DigitsValue(SelectSeq(text, NotComma))

\* C6: every row of the BRAS Monthly Record stands for at least one reading
\* with "100GE" in its interface identifier; its peak rate is the maximum
\* (not the sum, not the last) of the peak rates of those readings of its
\* location and calendar month, its utilization is peak / 100000 x 100, and
\* no two rows share (month, location); readings without "100GE" take no part.
C6_MonthlyPeak ==
    (AfterBras /\ bras_df.rows # << >>) =>
        \A g \in 1..Len(bras_df.rows) :
            LET row == bras_df.rows[g]
            IN  /\ ReadingsOf(row) # {}
                /\ \E i \in ReadingsOf(row) :
                      row.MaxSendTrafficRate = RateValue(bras_file.rows[i].rate)
                /\ \A i \in ReadingsOf(row) :
                      RateValue(bras_file.rows[i].rate) <= row.MaxSendTrafficRate
                /\ row.Utilization_Pct * 100000 = row.MaxSendTrafficRate * 100
                /\ row.Total_Capacity = 100000
                /\ row.Month.d = 1
                /\ \A h \in 1..Len(bras_df.rows) :
                      (h # g) => ~SameMonthLocation(bras_df.rows[h], row)

C6_Witness ==
    /\ AfterBras
    /\ Len(bras_df.rows) = 1
    /\ Cardinality(ReadingsOf(bras_df.rows[1])) = 2
    /\ bras_df.rows[1].MaxSendTrafficRate = 45000
    /\ RateValue(bras_file.rows[2].rate) = 30000

\* The rows of the Unified Record at a location, in the record's order.
SubSeries(location) == AtLocation(combined_df.rows, location)

\* tile reports the maximum of Metric over sub (scaled by unit) and the month
\* label of a row that attains it and has the earliest month among those.
ReportsPeak(tile, sub, Metric(_), unit) ==
    IF sub = << >> THEN tile = NoTile
    ELSE /\ tile.shown
         /\ \E i \in 1..Len(sub) :
               /\ \A j \in 1..Len(sub) : Metric(sub[j]) <= Metric(sub[i])
               /\ tile.value * unit = Metric(sub[i])
               /\ \A j \in 1..Len(sub) :
                     (Metric(sub[j]) = Metric(sub[i])) => ~DateLess(sub[j].Month, sub[i].Month)
               /\ tile.month = sub[i].Month_Name

PeakRate(row) == row.MaxSendTrafficRate
UserCount(row) == row.AAA_Users

\* C7: for each of the three sub-series of the selected region (BRAS01 and
\* BRAS02 by peak rate, shown in Gbps; AAA by user count) with at least one
\* Unified row, the KPI value is the maximum of the metric over the
\* sub-series and the month label is that of the first row in month order
\* that attains it; a sub-series without rows has no KPI tile.
C7_KpiPeaks ==
    (pc \in {"kpis", "done"} /\ message # "warning") =>
        /\ region \in Regions
        /\ ReportsPeak(kpis.BRAS01, SubSeries(region \o <<"_">> \o BRAS01), PeakRate, 1000)
        /\ ReportsPeak(kpis.BRAS02, SubSeries(region \o <<"_">> \o BRAS02), PeakRate, 1000)
        /\ ReportsPeak(kpis.AAA, SubSeries(region \o <<"_">> \o AAA), UserCount, 1)

C7_Witness ==
    /\ pc = "kpis" /\ region = MDY
    /\ Len(SubSeries(Loc_MDY_BRAS01)) = 2
    /\ SubSeries(Loc_MDY_BRAS01)[1].MaxSendTrafficRate = SubSeries(Loc_MDY_BRAS01)[2].MaxSendTrafficRate
    /\ kpis.BRAS01.shown /\ kpis.BRAS01.month = Name_Apr_2025 /\ kpis.BRAS01.value = 45
    /\ ~kpis.BRAS02.shown
    /\ kpis.AAA.shown

Scaling_x10 == <<"(", "×", "1", "0", ")">>

\* The chart line of a device, as a set (empty or one line).
LinesOf(device) == {i \in 1..Len(fig.lines) : fig.lines[i].device = device}

\* C8: in the chart of region MDY the line of MDY_BRAS02 plots 10 x the
\* stored utilization of each of its rows and its label contains "(×10)"; for
\* every other region and device slot the line plots the stored utilization
\* unmodified and its label has no scaling annotation.
C8_ScalingException ==
    (pc = "done" /\ message # "warning") =>
        \A slot \in {BRAS01, BRAS02} :
            LET device == region \o <<"_">> \o slot
                sub    == SubSeries(device)
                k      == IF region = MDY /\ slot = BRAS02 THEN 10 ELSE 1
            IN  IF sub = << >> THEN LinesOf(device) = {}
                ELSE /\ Cardinality(LinesOf(device)) = 1
                     /\ \A i \in LinesOf(device) :
                           /\ Len(fig.lines[i].y) = Len(sub)
                           /\ \A n \in 1..Len(sub) :
                                 /\ fig.lines[i].y[n] = k * sub[n].Utilization_Pct
                                 /\ fig.lines[i].x[n] = sub[n].Month_Name
                           /\ (k = 10) => Contains(fig.lines[i].label, Scaling_x10)
                           /\ (k = 1) => fig.lines[i].label = device \o Label_Utilization

C8_Witness ==
    /\ pc = "done" /\ region = MDY
    /\ \E i \in LinesOf(Loc_MDY_BRAS02) :
          /\ fig.lines[i].y = <<80>>
          /\ Contains(fig.lines[i].label, Scaling_x10)
    /\ \E i \in LinesOf(Loc_MDY_BRAS01) : fig.lines[i].y = <<45>>

\* C9: load_bras_data returns a table on every path, also when no row of a
\* readable source has "100GE" in its interface identifier.
C9_LoaderReturnsTable == AfterBras => bras_df.kind = "frame"

\* The source without the readings whose location has no BRAS<digits> tag.
HasDeviceTag(r) == ExtractBrasDevice(r.ne) # NA
WithoutUntagged(file) == [file EXCEPT !.rows = SelectSeq(file.rows, HasDeviceTag)]

\* A location key that ends in BRAS<digits> or in AAA.
WellFormedKey(location) ==
    \/ EndsWith(location, <<"_">> \o AAA)
    \/ /\ ExtractBrasDevice(location) # NA
       /\ EndsWith(location, <<"_">> \o ExtractBrasDevice(location))

====
